---------------------------- MODULE Spec2Model ----------------------------
(***************************************************************************)
(* crawl4ai-mcp-server (src/src/index.ts): the `crawl_urls` tool-call      *)
(* handler, its retry/backoff loop around the outbound POST, the           *)
(* result-shape resolution and the markdown normalizer.                    *)
(*                                                                         *)
(* JavaScript values are tagged records (field t is the tag).  A text is   *)
(* a sequence of string pieces whose concatenation (Flat) is the           *)
(* JavaScript string; pieces keep the parts of a template literal or of a  *)
(* join apart, so that "the text contains x" can be stated.                *)
(***************************************************************************)
EXTENDS Integers, Sequences, FiniteSets, TLC

\* ------------------------------------------------------------------ bounds
NumCalls == 2      \* handler activations that may be in flight together
MaxUrls == 2       \* longest `urls` array of a request
MaxItems == 2      \* longest array of result items in a response body

\* --------------------------------------------------------- program constants
retryCount == 3
BaseDelayMs == 1000
API_URL == "http://127.0.0.1:11235"
SEPARATOR == "\n\n---\n\n"
SENTINEL == "Error: No markdown content available for this URL"

\* -------------------------------------------------------- JavaScript values
Undef == [t |-> "undefined"]
Null == [t |-> "null"]
Str(s) == [t |-> "string", s |-> s]
Num(n) == [t |-> "number", n |-> n]
Bool(b) == [t |-> "boolean", b |-> b]
Arr(a) == [t |-> "array", a |-> a]
Obj(o) == [t |-> "object", o |-> o]

\* process.env.CRAWL4AI_AUTH_TOKEN, not set
AUTH_TOKEN == Undef

\* `!!v`
Truthy(v) ==
    CASE v.t = "undefined" -> FALSE
      [] v.t = "null" -> FALSE
      [] v.t = "string" -> v.s # ""
      [] v.t = "number" -> v.n # 0
      [] v.t = "boolean" -> v.b
      [] OTHER -> TRUE

\* `typeof v`
TypeOf(v) ==
    CASE v.t = "undefined" -> "undefined"
      [] v.t = "string" -> "string"
      [] v.t = "number" -> "number"
      [] v.t = "boolean" -> "boolean"
      [] OTHER -> "object"

\* `Array.isArray(v)`
IsArray(v) == v.t = "array"

\* `v.f` throws a TypeError exactly when v is undefined or null
CanRead(v) == v.t \notin {"undefined", "null"}

\* `v.f` for a v that can be read: a missing property reads as undefined
Get(v, f) ==
    IF v.t = "object" /\ f \in DOMAIN v.o THEN v.o[f] ELSE Undef

\* `v?.f`
OptGet(v, f) == IF CanRead(v) THEN Get(v, f) ELSE Undef

\* a choice that prefers its second operand
Or_PreferSecond(a, b) == IF Truthy(b) THEN b ELSE a

\* `a || b`
Or(a, b) == IF Truthy(a) THEN a ELSE b

\* `String(v)`, as a template literal or console output renders v
RECURSIVE JsString(_)
JsString(v) ==
    CASE v.t = "undefined" -> "undefined"
      [] v.t = "null" -> "null"
      [] v.t = "string" -> v.s
      [] v.t = "number" -> ToString(v.n)
      [] v.t = "boolean" -> (IF v.b THEN "true" ELSE "false")
      [] v.t = "array" ->
            LET F[i \in 0..Len(v.a)] ==
                    IF i = 0 THEN ""
                    ELSE LET e == v.a[i]
                             p == IF e.t \in {"undefined", "null"} THEN "" ELSE JsString(e)
                         IN IF i = 1 THEN p ELSE F[i - 1] \o "," \o p
            IN F[Len(v.a)]
      [] OTHER -> "[object Object]"

\* `s.toUpperCase()` on the method names axios uses
ToUpperCase(s) ==
    CASE s = "post" -> "POST"
      [] s = "get" -> "GET"
      [] OTHER -> s

\* the JavaScript string a text (sequence of pieces) stands for
Flat(text) ==
    LET F[i \in 0..Len(text)] == IF i = 0 THEN "" ELSE F[i - 1] \o text[i]
    IN F[Len(text)]

\* an object literal holding just the properties of fs that are not undefined
MkObj(fs) == Obj([f \in {g \in DOMAIN fs : fs[g] # Undef} |-> fs[f]])


\* ------------------------------------------------------------------ errors
\* a thrown value: an McpError of the protocol layer, ...
McpError(code, message) ==
    [t |-> "error", name |-> "McpError", isAxios |-> FALSE, code |-> code,
     message |-> Str(message), response |-> Undef, config |-> Undef]

\* ... the TypeError of reading a property of null or undefined, ...
TypeError ==
    [t |-> "error", name |-> "TypeError", isAxios |-> FALSE, code |-> "",
     message |-> Str("Cannot read properties of null"), response |-> Undef,
     config |-> Undef]

\* ... an error of the HTTP client (response: the HTTP response when one
\* arrived; config: the request configuration), ...
AxiosError(code, message, response, config) ==
    [t |-> "error", name |-> "AxiosError", isAxios |-> TRUE, code |-> code,
     message |-> Str(message), response |-> response, config |-> config]

\* ... or any other exception.
PlainError(message) ==
    [t |-> "error", name |-> "Error", isAxios |-> FALSE, code |-> "",
     message |-> Str(message), response |-> Undef, config |-> Undef]

\* a test that takes only errors carrying an HTTP status for transport errors
IsAxiosError_WithStatus(e) == e.t = "error" /\ e.isAxios /\ e.response # Undef

\* a test that takes every error for a transport error
IsAxiosError_AnyError(e) == e.t = "error"

\* `axios.isAxiosError(e)`
IsAxiosError(e) == e.t = "error" /\ e.isAxios

\* completions of a piece of code: a returned value or a thrown one
Return(v) == [threw |-> FALSE, v |-> v]
Throw(e) == [threw |-> TRUE, v |-> e]

\* ------------------------------------------------------------- validation
\* a validation that checks `urls` to be an array, and not its elements
isValidCrawlRequest_ArrayOnly(args) ==
    IF ~Truthy(args) \/ TypeOf(args) # "object" THEN FALSE
    ELSE IsArray(Get(args, "urls"))

isValidCrawlRequest(args) ==
    IF ~Truthy(args) \/ TypeOf(args) # "object" THEN FALSE
    ELSE LET urls == Get(args, "urls")
         IN IF ~IsArray(urls) THEN FALSE
            ELSE \A i \in 1..Len(urls.a) : TypeOf(urls.a[i]) = "string"

\* ------------------------------------------------------------- normalizer
extractMarkdown(result) ==
    IF ~CanRead(result) THEN Throw(TypeError)
    ELSE LET v2 == Get(result, "markdown_v2")
         IN IF Truthy(v2) /\ Truthy(Get(v2, "markdown_with_citations"))
               THEN Return(Get(v2, "markdown_with_citations"))
            ELSE IF Truthy(Get(result, "markdown"))
               THEN Return(Get(result, "markdown"))
            ELSE IF TypeOf(result) = "string"
               THEN Return(result)
            ELSE Return(Str(SENTINEL))

\* ------------------------------------------------- result-shape resolution
\* a resolution that forgets the bare array
ResolveResults_NoBareArray(data) ==
    IF Truthy(Get(data, "results")) /\ IsArray(Get(data, "results"))
       THEN Get(data, "results").a
    ELSE <<data>>

ResolveResults(data) ==
    IF Truthy(Get(data, "results")) /\ IsArray(Get(data, "results"))
       THEN Get(data, "results").a
    ELSE IF IsArray(data) THEN data.a
    ELSE <<data>>

\* a join that puts the separator after every element
Join_Trailing(arr, sep) ==
    LET piece(e) == IF e.t \in {"undefined", "null"} THEN "" ELSE JsString(e)
        F[i \in 0..Len(arr)] ==
            IF i = 0 THEN <<>> ELSE F[i - 1] \o <<piece(arr[i]), sep>>
    IN F[Len(arr)]

\* `arr.join(sep)`: null and undefined elements render as the empty string
Join(arr, sep) ==
    LET piece(e) == IF e.t \in {"undefined", "null"} THEN "" ELSE JsString(e)
        F[i \in 0..Len(arr)] ==
            IF i = 0 THEN <<>>
            ELSE IF i = 1 THEN <<piece(arr[1])>>
            ELSE F[i - 1] \o <<sep, piece(arr[i])>>
    IN F[Len(arr)]

\* `results.map(extractMarkdown)`: the first element that throws ends the map
MapExtract(results) ==
    IF \E i \in 1..Len(results) : extractMarkdown(results[i]).threw
       THEN Throw(TypeError)
    ELSE Return([i \in 1..Len(results) |-> extractMarkdown(results[i]).v])

\* the successful reply: one text block, no isError property
SuccessReply(markdownResults) ==
    [content |-> <<[type |-> "text", text |-> Join(markdownResults, SEPARATOR)]>>]

\* the soft reply of the axios branch of the outer catch
SoftReply(error) ==
    LET statusCode == OptGet(error.response, "status")
        data == OptGet(error.response, "data")
        message == Or(Or(OptGet(data, "message"), OptGet(data, "detail")),
                      error.message)
        method == OptGet(error.config, "method")
        requestInfo ==
            IF Truthy(error.config)
               THEN <<(IF method.t = "string" THEN ToUpperCase(method.s)
                       ELSE "undefined"),
                      " ", JsString(OptGet(error.config, "url"))>>
            ELSE <<"Unknown request">>
    IN [content |-> <<[type |-> "text",
                       text |-> <<"Crawling service error (", JsString(statusCode),
                                  ") for ">> \o requestInfo
                                \o <<": ", JsString(message)>>]>>,
        isError |-> TRUE]

\* the rest of the handler without the check of the body
AfterLoop_NoEmptyCheck(response, lastError) ==
    IF ~Truthy(response) THEN [results |-> <<>>, c |-> Throw(lastError)]
    ELSE LET results == ResolveResults(response.data)
             mapped == MapExtract(results)
         IN [results |-> results,
             c |-> IF mapped.threw THEN mapped ELSE Return(SuccessReply(mapped.v))]

\* the rest of the handler with the error of an earlier attempt thrown
\* although a later attempt brought a response
AfterLoop_ErrorFirst(response, lastError) ==
    IF Truthy(lastError) \/ ~Truthy(response)
       THEN [results |-> <<>>, c |-> Throw(lastError)]
    ELSE IF ~Truthy(response.data)
       THEN [results |-> <<>>,
             c |-> Throw(McpError("InternalError", "Empty response from crawling service"))]
    ELSE LET results == ResolveResults(response.data)
             mapped == MapExtract(results)
         IN [results |-> results,
             c |-> IF mapped.threw THEN mapped ELSE Return(SuccessReply(mapped.v))]

\* the body of the outer try after the retry loop: its completion, and the
\* local `results` as far as it got
AfterLoop(response, lastError) ==
    IF ~Truthy(response) THEN [results |-> <<>>, c |-> Throw(lastError)]
    ELSE IF ~Truthy(response.data)
       THEN [results |-> <<>>,
             c |-> Throw(McpError("InternalError", "Empty response from crawling service"))]
    ELSE LET results == ResolveResults(response.data)
             mapped == MapExtract(results)
         IN [results |-> results,
             c |-> IF mapped.threw THEN mapped ELSE Return(SuccessReply(mapped.v))]

\* the outer try/catch: an axios error becomes a soft reply, any other
\* thrown value is thrown again
Outcome(response, lastError) ==
    LET r == AfterLoop(response, lastError)
    IN [results |-> r.results,
        c |-> IF r.c.threw /\ IsAxiosError(r.c.v) THEN Return(SoftReply(r.c.v)) ELSE r.c]

\* the two checks in the other order: arguments first
Validate_ArgumentsFirst(r) ==
    IF ~isValidCrawlRequest(r.arguments)
       THEN Throw(McpError("InvalidParams", "Invalid crawl request parameters"))
    ELSE IF r.name # "crawl_urls"
       THEN Throw(McpError("MethodNotFound", "Unknown tool: " \o r.name))
    ELSE Return(r.arguments)

\* the two checks at the handler's entry, in the code's order
Validate(r) ==
    IF r.name # "crawl_urls"
       THEN Throw(McpError("MethodNotFound", "Unknown tool: " \o r.name))
    ELSE IF ~isValidCrawlRequest(r.arguments)
       THEN Throw(McpError("InvalidParams", "Invalid crawl request parameters"))
    ELSE Return(r.arguments)

\* a loop that runs once more than retryCount
LoopContinues_OneMore(n) == n <= retryCount + 1

\* the loop condition `attempt <= this.retryCount`
LoopContinues(n) == n <= retryCount

\* a wait after every failed attempt, the last one too
WaitsBeforeRetry_Always(n) == TRUE

\* `attempt < this.retryCount`: a failed attempt is followed by a wait
WaitsBeforeRetry(n) == n < retryCount

\* a loop that gives up on an HTTP 4xx status
Catches_NotClientErrors(error) ==
    ~(/\ error.isAxios /\ error.response # Undef
      /\ error.response.o.status.n \in 400..499)

\* `catch (error)` of the loop: it catches whatever the attempt throws
Catches(error) == TRUE

\* a loop that keeps the first error it saw
NextLastError_KeepFirst(previous, error) ==
    IF previous = Undef THEN error ELSE previous

\* `lastError = error`
NextLastError(previous, error) == error


\* ------------------------------------------------------------ input domains
SeqsUpTo(S, n) == UNION {[1..k -> S] : k \in 0..n}

ToolNames == {"crawl_urls", "scrape"}

UrlElems == {Str("https://a.example"), Str("https://b.example"), Num(7)}

\* `request.params.arguments`: absent, not an object, lacking `urls`, `urls`
\* not an array, and every array over UrlElems of at most MaxUrls elements
Arguments ==
    {Undef, Null, Str("https://a.example"), Arr(<<Str("https://a.example")>>),
     Obj(<<>>), Obj([urls |-> Str("https://a.example")]), Obj([urls |-> Null])}
    \cup {Obj([urls |-> Arr(s)]) : s \in SeqsUpTo(UrlElems, MaxUrls)}

Requests == [name : ToolNames, arguments : Arguments]

\* result items: every combination of the two markdown fields over absent,
\* null, empty, non-empty and non-string values, and the non-object items
CitVals == {Str("A"), Str("")}
Mv2Vals == {Undef, Null, Obj(<<>>)} \cup {Obj([markdown_with_citations |-> c]) : c \in CitVals}
MdVals == {Undef, Null, Str("B"), Str(""), Num(7)}
ObjItems == {MkObj([markdown_v2 |-> a, markdown |-> b]) : a \in Mv2Vals, b \in MdVals}
ScalarItems == {Str("C"), Str(""), Num(7), Num(0), Bool(TRUE), Bool(FALSE), Null, Arr(<<>>)}
Items == ObjItems \cup ScalarItems

ItemX == Obj([markdown |-> Str("X")])
ItemY == Obj([markdown |-> Str("Y")])
ListItems == {ItemX, ItemY, Null}
Lists == SeqsUpTo(ListItems, MaxItems)

\* `response.data`: absent, a single item, a bare array, an object with
\* `results` (an array, or not one)
Bodies ==
    {Undef} \cup Items \cup {ItemX, ItemY}
    \cup {Arr(s) : s \in Lists}
    \cup {Obj([results |-> Arr(s)]) : s \in Lists}
    \cup {Arr(<<Str("C"), Obj(<<>>)>>),
          Obj([results |-> Arr(<<Str("C"), Obj(<<>>)>>)]),
          Obj([results |-> Str("none"), markdown |-> Str("X")]),
          Obj([results |-> Arr(<<ItemX>>), markdown |-> Str("Z")])}

\* the configuration axios attaches to the errors of a request
PostConfig == Obj([method |-> Str("post"), url |-> Str(API_URL \o "/crawl_direct")])
HttpResponse(status, data) == Obj([status |-> Num(status), data |-> data])

\* what a failed attempt throws: HTTP error statuses (5xx and 4xx, with and
\* without message/detail), a refused connection, a connection that timed
\* out, an axios error
\* that carries no configuration, and an exception that is no axios error
Errors ==
    {AxiosError("ERR_BAD_RESPONSE", "Request failed with status code 500",
                HttpResponse(500, Obj([detail |-> Str("boom")])), PostConfig),
     AxiosError("ERR_BAD_RESPONSE", "Request failed with status code 502",
                HttpResponse(502, Obj([message |-> Str("bad gateway"),
                                       detail |-> Str("upstream")])), PostConfig),
     AxiosError("ERR_BAD_RESPONSE", "Request failed with status code 503",
                HttpResponse(503, Obj([message |-> Str(""),
                                       detail |-> Str("down")])), PostConfig),
     AxiosError("ERR_BAD_REQUEST", "Request failed with status code 404",
                HttpResponse(404, Str("Not Found")), PostConfig),
     AxiosError("ECONNREFUSED", "connect ECONNREFUSED 127.0.0.1:11235", Undef, PostConfig),
     AxiosError("ETIMEDOUT", "connect ETIMEDOUT 127.0.0.1:11235", Undef, PostConfig),
     AxiosError("ERR_CANCELED", "canceled", Undef, Undef),
     PlainError("unexpected")}

\* how the awaited POST settles: with a response or with a thrown error
Resp(data) == [t |-> "response", status |-> 200, data |-> data]
Settlements ==
    {[ok |-> TRUE, v |-> Resp(d)] : d \in Bodies}
    \cup {[ok |-> FALSE, v |-> e] : e \in Errors}

\* ------------------------------------------------------------------- state
Calls == 1..NumCalls

VARIABLES
    pc,         \* per activation: "idle", "inflight" (awaiting the POST),
                \* "backoff" (awaiting the timer) or "done"
    req,        \* the request being handled
    attempt,    \* the loop variable `attempt`
    response,   \* the local `response`
    lastError,  \* the local `lastError`
    posts,      \* the POSTs issued for the request, in order
    timer,      \* milliseconds left of the pending setTimeout
    waits,      \* milliseconds each backoff wait has lasted so far
    hist,       \* how each attempt settled, in order
    results,    \* the local `results`
    reply,      \* what the handler answered: a result or a fault
    answers,    \* whether the service ever answers the POST in flight
    validated   \* how many times the activation has run the two validations

vars == <<pc, req, attempt, response, lastError, posts, timer, waits, hist, results, reply,
          answers, validated>>

NoReply == [kind |-> "none"]
Result(value) == [kind |-> "result", value |-> value]
Fault(error) == [kind |-> "fault", error |-> error]

\* a completion as the handler's answer
Answer(c) == IF c.threw THEN Fault(c.v) ELSE Result(c.v)

DEFAULT_CONFIG ==
    [priority |-> 10, magic |-> TRUE,
     crawler_params |->
        [headless |-> TRUE, page_timeout |-> 30000,
         remove_overlay_elements |-> TRUE, browser_type |-> "chromium",
         scan_full_page |-> TRUE, user_agent_mode |-> "random",
         user_agent_generator_config |-> [device_type |-> "mobile", os_type |-> "android"]],
     bypass_cache |-> TRUE, ignore_images |-> TRUE]

\* `timeout: 60000`, the timeout `this.axiosInstance` is created with
InstanceTimeoutMs == 60000

\* the timeout of a request is that of the client that issues it: the
\* instance made by `axios.create` has InstanceTimeoutMs, the imported
\* `axios` has the library's default, 0, which is no timeout
TimeoutOf(client) == IF client = "axiosInstance" THEN InstanceTimeoutMs ELSE 0

\* how a request with a timeout of ms settles when no response arrives in time
TimedOut(ms) ==
    [ok |-> FALSE,
     v |-> AxiosError("ECONNABORTED", "timeout of " \o ToString(ms) \o "ms exceeded",
                      Undef, PostConfig)]

\* a POST that carries the first url only
Post_FirstUrlOnly(r) ==
    [method |-> "post", url |-> API_URL \o "/crawl_direct",
     client |-> "axios", timeout |-> TimeoutOf("axios"),
     config |-> DEFAULT_CONFIG,
     urls |-> IF IsArray(Get(r.arguments, "urls")) /\ Len(Get(r.arguments, "urls").a) > 1
                 THEN Arr(<<Get(r.arguments, "urls").a[1]>>)
              ELSE Get(r.arguments, "urls"),
     headers |-> IF Truthy(AUTH_TOKEN)
                    THEN [Authorization |-> "Bearer " \o JsString(AUTH_TOKEN)]
                    ELSE <<>>]

\* `axios.post(`${API_URL}/crawl_direct`, {...DEFAULT_CONFIG, urls}, {headers})`:
\* issued by the imported `axios`, not by `this.axiosInstance`
Post(r) ==
    [method |-> "post", url |-> API_URL \o "/crawl_direct",
     client |-> "axios", timeout |-> TimeoutOf("axios"),
     config |-> DEFAULT_CONFIG, urls |-> Get(r.arguments, "urls"),
     headers |-> IF Truthy(AUTH_TOKEN)
                    THEN [Authorization |-> "Bearer " \o JsString(AUTH_TOKEN)]
                    ELSE <<>>]

\* a backoff that does not grow
Delay_Constant(n) == BaseDelayMs

\* `1000 * Math.pow(2, attempt - 1)`
Delay(n) == BaseDelayMs * 2 ^ (n - 1)

\* locals kept in one place for all activations
Frame_Shared(c) == 1

\* `let response; let lastError; let attempt`: locals of the handler, so
\* every activation has its own
Frame(c) == c

Init ==
    /\ pc = [c \in Calls |-> "idle"]
    /\ req = [c \in Calls |-> [name |-> "", arguments |-> Undef]]
    /\ attempt = [c \in Calls |-> 0]
    /\ response = [c \in Calls |-> Undef]
    /\ lastError = [c \in Calls |-> Undef]
    /\ posts = [c \in Calls |-> <<>>]
    /\ timer = [c \in Calls |-> 0]
    /\ waits = [c \in Calls |-> <<>>]
    /\ hist = [c \in Calls |-> <<>>]
    /\ results = [c \in Calls |-> <<>>]
    /\ reply = [c \in Calls |-> NoReply]
    /\ answers = [c \in Calls |-> FALSE]
    /\ validated = [c \in Calls |-> 0]

\* The handler is entered with request r and runs to its first await: the
\* two validations, then the first attempt's POST.
CallTool(c, r) ==
    /\ pc[c] = "idle"
    /\ req' = [req EXCEPT ![c] = r]
    /\ validated' = [validated EXCEPT ![c] = @ + 1]
    /\ IF Validate(r).threw
          THEN /\ reply' = [reply EXCEPT ![c] = Fault(Validate(r).v)]
               /\ pc' = [pc EXCEPT ![c] = "done"]
               /\ UNCHANGED <<attempt, posts, answers>>
       ELSE /\ attempt' = [attempt EXCEPT ![Frame(c)] = 1]
            /\ posts' = [posts EXCEPT ![c] = <<Post(r)>>]
            /\ \E b \in BOOLEAN : answers' = [answers EXCEPT ![c] = b]
            /\ pc' = [pc EXCEPT ![c] = "inflight"]
            /\ UNCHANGED reply
    /\ UNCHANGED <<response, lastError, timer, waits, hist, results>>

\* `attempt++` and the loop condition: the next attempt's POST, or the end
\* of the loop and the rest of the handler, which answers.
NextIteration(c, resp, err) ==
    /\ attempt' = [attempt EXCEPT ![Frame(c)] = @ + 1]
    /\ IF LoopContinues(attempt[Frame(c)] + 1)
          THEN /\ posts' = [posts EXCEPT ![c] = Append(@, Post(req[c]))]
               /\ \E b \in BOOLEAN : answers' = [answers EXCEPT ![c] = b]
               /\ pc' = [pc EXCEPT ![c] = "inflight"]
               /\ UNCHANGED <<results, reply>>
       ELSE /\ results' = [results EXCEPT ![c] = Outcome(resp, err).results]
            /\ reply' = [reply EXCEPT ![c] = Answer(Outcome(resp, err).c)]
            /\ answers' = [answers EXCEPT ![c] = FALSE]
            /\ pc' = [pc EXCEPT ![c] = "done"]
            /\ UNCHANGED posts

\* The awaited POST settles with s: with what the service answers, or, for
\* a request that has a timeout, with the timeout's error.  A response
\* breaks out of the loop and the rest of the handler runs; an error the loop
\* does not catch goes to the outer catch; an error it catches is kept in
\* lastError and, before the last attempt, starts the backoff timer, else the
\* loop goes on at once.
PostSettles(c, s) ==
    /\ pc[c] = "inflight"
    /\ LET post == posts[c][Len(posts[c])]
       IN IF s = TimedOut(post.timeout) THEN post.timeout > 0 ELSE answers[c]
    /\ hist' = [hist EXCEPT ![c] = Append(@, s)]
    /\ IF s.ok
          THEN /\ response' = [response EXCEPT ![Frame(c)] = s.v]
               /\ results' = [results EXCEPT ![c] = Outcome(s.v, lastError[Frame(c)]).results]
               /\ reply' = [reply EXCEPT ![c] = Answer(Outcome(s.v, lastError[Frame(c)]).c)]
               /\ answers' = [answers EXCEPT ![c] = FALSE]
               /\ pc' = [pc EXCEPT ![c] = "done"]
               /\ UNCHANGED <<lastError, attempt, posts, timer, waits>>
       ELSE IF ~Catches(s.v)
          THEN /\ results' = [results EXCEPT ![c] = Outcome(Undef, s.v).results]
               /\ reply' = [reply EXCEPT ![c] = Answer(Outcome(Undef, s.v).c)]
               /\ answers' = [answers EXCEPT ![c] = FALSE]
               /\ pc' = [pc EXCEPT ![c] = "done"]
               /\ UNCHANGED <<response, lastError, attempt, posts, timer, waits>>
       ELSE /\ lastError' = [lastError EXCEPT ![Frame(c)] = NextLastError(@, s.v)]
            /\ IF WaitsBeforeRetry(attempt[Frame(c)])
                  THEN /\ timer' = [timer EXCEPT ![c] = Delay(attempt[Frame(c)])]
                       /\ waits' = [waits EXCEPT ![c] = Append(@, 0)]
                       /\ answers' = [answers EXCEPT ![c] = FALSE]
                       /\ pc' = [pc EXCEPT ![c] = "backoff"]
                       /\ UNCHANGED <<attempt, posts, results, reply>>
               ELSE /\ NextIteration(c, response[Frame(c)],
                                     NextLastError(lastError[Frame(c)], s.v))
                    /\ UNCHANGED <<timer, waits>>
            /\ UNCHANGED response
    /\ UNCHANGED <<req, validated>>

\* BaseDelayMs of time pass for every pending timer.
Tick ==
    /\ \E c \in Calls : pc[c] = "backoff" /\ timer[c] > 0
    /\ timer' = [c \in Calls |->
                    IF pc[c] = "backoff" /\ timer[c] > 0
                       THEN timer[c] - BaseDelayMs ELSE timer[c]]
    /\ waits' = [c \in Calls |->
                    IF pc[c] = "backoff" /\ timer[c] > 0
                       THEN [waits[c] EXCEPT ![Len(waits[c])] = @ + BaseDelayMs]
                    ELSE waits[c]]
    /\ UNCHANGED <<pc, req, attempt, response, lastError, posts, hist, results, reply,
                   answers, validated>>

\* The timer has fired: the loop goes on.
BackoffElapses(c) ==
    /\ pc[c] = "backoff"
    /\ timer[c] <= 0
    /\ NextIteration(c, response[Frame(c)], lastError[Frame(c)])
    /\ UNCHANGED <<req, response, lastError, timer, waits, hist, validated>>

\* The handler has answered: the activation and its locals are gone.
HandlerEnds(c) ==
    /\ pc[c] = "done"
    /\ pc' = [pc EXCEPT ![c] = "idle"]
    /\ req' = [req EXCEPT ![c] = [name |-> "", arguments |-> Undef]]
    /\ attempt' = [attempt EXCEPT ![c] = 0]
    /\ response' = [response EXCEPT ![c] = Undef]
    /\ lastError' = [lastError EXCEPT ![c] = Undef]
    /\ posts' = [posts EXCEPT ![c] = <<>>]
    /\ timer' = [timer EXCEPT ![c] = 0]
    /\ waits' = [waits EXCEPT ![c] = <<>>]
    /\ hist' = [hist EXCEPT ![c] = <<>>]
    /\ results' = [results EXCEPT ![c] = <<>>]
    /\ reply' = [reply EXCEPT ![c] = NoReply]
    /\ answers' = [answers EXCEPT ![c] = FALSE]
    /\ validated' = [validated EXCEPT ![c] = 0]

Dispatch(c) == \E r \in Requests : CallTool(c, r)
Settle(c) ==
    /\ pc[c] = "inflight"
    /\ \E s \in Settlements \cup {TimedOut(posts[c][Len(posts[c])].timeout)} :
            PostSettles(c, s)

\* One handler activation at a time, in slot 1.  Every action takes its slot
\* as a parameter and touches that slot's state only (Tick, the passing of
\* time, aside), so interleavings of several activations are the same
\* actions over Calls.
Next ==
    \/ Dispatch(1)
    \/ Settle(1)
    \/ BackoffElapses(1)
    \/ HandlerEnds(1)
    \/ Tick

Spec == Init /\ [][Next]_vars

\* Several activations at once: the server does not serialize its calls, so
\* a handler suspended at an await (the POST, the backoff timer) lets the
\* steps of other activations run.  The inputs are a few of those of Spec:
\* one valid and one invalid request, a response with a body and one
\* without, a transport error and an exception that is none.
ConcRequests ==
    {r \in Requests :
        \/ r.name = "scrape" /\ r.arguments = Undef
        \/ r.name = "crawl_urls"
              /\ r.arguments = Obj([urls |-> Arr(<<Str("https://a.example")>>)])}
ConcSettlements ==
    {s \in Settlements :
        IF s.ok THEN s.v.data \in {ItemX, Null}
        ELSE s.v.code \in {"ECONNREFUSED", ""}}

ConcDispatch(c) == \E r \in ConcRequests : CallTool(c, r)
ConcSettle(c) == \E s \in ConcSettlements : PostSettles(c, s)

NextConcurrent ==
    \/ \E c \in Calls : ConcDispatch(c)
    \/ \E c \in Calls : ConcSettle(c)
    \/ \E c \in Calls : BackoffElapses(c)
    \/ \E c \in Calls : HandlerEnds(c)
    \/ Tick

SpecConcurrent == Init /\ [][NextConcurrent]_vars


\* ================================================================== claims
\* what the claims call a request's arguments: lacking `urls`, holding a
\* non-string element, well formed
LacksUrls(a) == a.t # "object" \/ "urls" \notin DOMAIN a.o
HasNonStringUrl(a) ==
    /\ a.t = "object" /\ "urls" \in DOMAIN a.o /\ a.o.urls.t = "array"
    /\ \E i \in 1..Len(a.o.urls.a) : a.o.urls.a[i].t # "string"
WellFormed(a) ==
    /\ a.t = "object" /\ "urls" \in DOMAIN a.o /\ a.o.urls.t = "array"
    /\ \A i \in 1..Len(a.o.urls.a) : a.o.urls.a[i].t = "string"
IsFault(c, code) ==
    /\ reply[c].kind = "fault"
    /\ reply[c].error.name = "McpError"
    /\ reply[c].error.code = code

\* C1 as stated: every call whose arguments lack `urls`, or whose `urls`
\* holds a non-string element, ends in an InvalidParams fault with no POST
\* issued -- whatever its tool name.
C1_AsStated ==
    \A c \in Calls :
        (pc[c] # "idle" /\ (LacksUrls(req[c].arguments) \/ HasNonStringUrl(req[c].arguments)))
            => /\ pc[c] = "done"
               /\ IsFault(c, "InvalidParams")
               /\ posts[c] = <<>>

\* C1 (amended): every call to `crawl_urls` whose arguments lack `urls`, or
\* whose `urls` holds a non-string element, ends at once in an InvalidParams
\* fault, and no POST is issued for it in any state of the call.
C1_InvalidParamsNoPost ==
    \A c \in Calls :
        (/\ pc[c] # "idle"
         /\ req[c].name = "crawl_urls"
         /\ (LacksUrls(req[c].arguments) \/ HasNonStringUrl(req[c].arguments)))
            => /\ pc[c] = "done"
               /\ IsFault(c, "InvalidParams")
               /\ posts[c] = <<>>
               /\ hist[c] = <<>>

C1_Witness ==
    /\ pc[1] = "done"
    /\ req[1].name = "crawl_urls"
    /\ HasNonStringUrl(req[1].arguments)
    /\ Len(req[1].arguments.o.urls.a) = 2
    /\ IsFault(1, "InvalidParams")
    /\ posts[1] = <<>>

\* C2: every call whose tool name is not `crawl_urls` ends at once in a
\* MethodNotFound fault, whatever its arguments, and no POST is issued for it
\* in any state of the call.
C2_MethodNotFoundNoPost ==
    \A c \in Calls :
        (pc[c] # "idle" /\ req[c].name # "crawl_urls")
            => /\ pc[c] = "done"
               /\ IsFault(c, "MethodNotFound")
               /\ posts[c] = <<>>
               /\ hist[c] = <<>>

C2_Witness ==
    /\ pc[1] = "done"
    /\ req[1].name = "scrape"
    /\ HasNonStringUrl(req[1].arguments)
    /\ IsFault(1, "MethodNotFound")
    /\ posts[1] = <<>>

\* C3: a valid call (tool `crawl_urls`, well-formed arguments) has issued at
\* least 1 and at most 3 POSTs in every state, one per attempt, however the
\* attempts settle; no state holds a fourth.
C3_OneToThreePosts ==
    \A c \in Calls :
        (pc[c] # "idle" /\ req[c].name = "crawl_urls" /\ WellFormed(req[c].arguments))
            => /\ Len(posts[c]) >= 1
               /\ Len(posts[c]) <= 3
               /\ Len(hist[c]) <= 3
               /\ Len(hist[c]) = IF pc[c] = "inflight" THEN Len(posts[c]) - 1 ELSE Len(posts[c])

C3_Witness ==
    /\ pc[1] = "done"
    /\ WellFormed(req[1].arguments)
    /\ Len(posts[1]) = 3
    /\ \A i \in 1..3 : ~hist[1][i].ok


\* how the attempts of call c settled: f for a failed one, s for a response
Settled(c, pattern) ==
    /\ Len(hist[c]) = Len(pattern)
    /\ \A i \in 1..Len(pattern) : hist[c][i].ok = (pattern[i] = "s")
EmptyBody(d) == d \in {Undef, Null, Str(""), Num(0), Bool(FALSE)}
IsSuccessReply(c) ==
    /\ reply[c].kind = "result"
    /\ "isError" \notin DOMAIN reply[c].value
IsSoftReply(c) ==
    /\ reply[c].kind = "result"
    /\ "isError" \in DOMAIN reply[c].value
    /\ reply[c].value.isError = TRUE
\* the text of the reply's first block
ReplyText(c) == reply[c].value.content[1].text
Contains(text, piece) == \E i \in 1..Len(text) : text[i] = piece

\* C4 as stated: fail, fail, success => waits of 1000 and 2000 ms, exactly
\* 3 attempts, and a successful (non-error) result.
C4_AsStated ==
    \A c \in Calls :
        (pc[c] = "done" /\ Settled(c, <<"f", "f", "s">>))
            => /\ waits[c] = <<1000, 2000>>
               /\ Len(posts[c]) = 3
               /\ IsSuccessReply(c)

\* C4 (amended): fail, fail, success => waits of 1000 and 2000 ms, exactly 3
\* attempts, and an answer that comes from attempt 3's response alone and is
\* never a soft error: the successful result built from that response when
\* its body is non-empty and no resolved item is null, an InternalError
\* fault when the body is empty, a TypeError when a resolved item is null.
C4_ThirdAttemptAnswers ==
    \A c \in Calls :
        (pc[c] = "done" /\ Settled(c, <<"f", "f", "s">>))
            => /\ waits[c] = <<1000, 2000>>
               /\ Len(posts[c]) = 3
               /\ ~IsSoftReply(c)
               /\ LET d == hist[c][3].v.data
                      items == ResolveResults(d)
                  IN IF EmptyBody(d) THEN IsFault(c, "InternalError")
                     ELSE IF \E i \in 1..Len(items) : items[i] = Null
                        THEN reply[c] = Fault(TypeError)
                     ELSE /\ IsSuccessReply(c)
                          /\ reply[c].value = SuccessReply(MapExtract(items).v)

C4_Witness ==
    /\ pc[1] = "done"
    /\ Settled(1, <<"f", "f", "s">>)
    /\ hist[1][3].v.data = Obj([results |-> Arr(<<ItemX, ItemY>>)])
    /\ waits[1] = <<1000, 2000>>
    /\ IsSuccessReply(1)

\* C5: when all 3 attempts fail, the answer is made of attempt 3's error
\* alone -- the soft reply built from it, or that very error thrown again --
\* whatever the errors of attempts 1 and 2 were.
C5_LastErrorSurfaces ==
    \A c \in Calls :
        (pc[c] = "done" /\ Settled(c, <<"f", "f", "f">>))
            => LET e3 == hist[c][3].v
               IN /\ lastError[c] = e3
                  /\ reply[c] = IF e3.isAxios THEN Result(SoftReply(e3)) ELSE Fault(e3)

C5_Witness ==
    /\ pc[1] = "done"
    /\ Settled(1, <<"f", "f", "f">>)
    /\ hist[1][1].v # hist[1][2].v
    /\ hist[1][1].v # hist[1][3].v
    /\ hist[1][2].v # hist[1][3].v
    /\ hist[1][1].v.isAxios /\ hist[1][2].v.isAxios /\ hist[1][3].v.isAxios
    /\ IsSoftReply(1)

\* the transport errors C6 names: an HTTP error status, a refused
\* connection, a timeout
HasStatus(e) == e.response # Undef
IsTransportError(e) ==
    e.isAxios /\ (HasStatus(e) \/ e.code \in {"ECONNREFUSED", "ETIMEDOUT", "ECONNABORTED"})
Boom500 ==
    AxiosError("ERR_BAD_RESPONSE", "Request failed with status code 500",
               HttpResponse(500, Obj([detail |-> Str("boom")])), PostConfig)

\* C6: when all 3 attempts fail with transport errors the handler raises no
\* fault: it returns isError true with a single text block that holds the
\* status code (when the error has one), the method and URL of the request,
\* and a non-empty message; for HTTP 500 with body {detail: "boom"} the text
\* holds 500, the URL and boom.
C6_SoftReplyOnTransportErrors ==
    \A c \in Calls :
        (/\ pc[c] = "done" /\ Settled(c, <<"f", "f", "f">>)
         /\ \A i \in 1..3 : IsTransportError(hist[c][i].v))
            => LET e3 == hist[c][3].v
               IN /\ IsSoftReply(c)
                  /\ Len(reply[c].value.content) = 1
                  /\ reply[c].value.content[1].type = "text"
                  /\ HasStatus(e3) => Contains(ReplyText(c), ToString(e3.response.o.status.n))
                  /\ Contains(ReplyText(c), "POST")
                  /\ Contains(ReplyText(c), "http://127.0.0.1:11235/crawl_direct")
                  /\ ReplyText(c)[Len(ReplyText(c))] # ""
                  /\ e3 = Boom500 =>
                        /\ Contains(ReplyText(c), "500")
                        /\ Contains(ReplyText(c), "boom")
                        /\ Flat(ReplyText(c)) =
                              "Crawling service error (500) for POST http://127.0.0.1:11235/crawl_direct: boom"

C6_Witness ==
    /\ pc[1] = "done"
    /\ Settled(1, <<"f", "f", "f">>)
    /\ \A i \in 1..3 : hist[1][i].v = Boom500
    /\ IsSoftReply(1)
    /\ Contains(ReplyText(1), "boom")


\* the body of the response that ended the loop of call c
Answered(c) == pc[c] = "done" /\ hist[c] # <<>> /\ hist[c][Len(hist[c])].ok
Body(c) == hist[c][Len(hist[c])].v.data

\* C7 as stated: the Normalizer is total -- for every element that
\* result-shape resolution passes to it, it returns a string and does not
\* throw.
C7_NormalizerTotal ==
    \A c \in Calls :
        \A i \in 1..Len(results[c]) :
            /\ ~extractMarkdown(results[c][i]).threw
            /\ extractMarkdown(results[c][i]).v.t = "string"

\* what C8 says the Normalizer returns for an item, with "present" read as
\* neither absent nor null
Present(v) == v.t \notin {"undefined", "null"}
Field(item, f) == IF item.t = "object" /\ f \in DOMAIN item.o THEN item.o[f] ELSE Undef
ClaimedMarkdown(item) ==
    IF Present(Field(Field(item, "markdown_v2"), "markdown_with_citations"))
       THEN Field(Field(item, "markdown_v2"), "markdown_with_citations")
    ELSE IF Present(Field(item, "markdown")) THEN Field(item, "markdown")
    ELSE IF item.t = "string" THEN item
    ELSE Str(SENTINEL)

\* C8 as stated: for every item other than null that reaches it, the
\* Normalizer returns markdown_v2.markdown_with_citations when present, else
\* markdown when present, else the item when it is a string, else the
\* sentinel -- for every present value, the empty string included.
C8_AsStated ==
    \A c \in Calls :
        \A i \in 1..Len(results[c]) :
            results[c][i] # Null
                => extractMarkdown(results[c][i]) = Return(ClaimedMarkdown(results[c][i]))

\* C9: after a response with a non-empty body the result items are the
\* body's `results` when that is an array, else the body when it is an
\* array, else the body alone; so a bare array is answered as the same array
\* under `results` is, and the bare object {markdown: "X"} is answered "X".
C9_ResultShapeResolution ==
    \A c \in Calls :
        (Answered(c) /\ ~EmptyBody(Body(c)))
            => LET d == Body(c)
               IN /\ results[c] =
                        IF d.t = "object" /\ "results" \in DOMAIN d.o /\ d.o.results.t = "array"
                           THEN d.o.results.a
                        ELSE IF d.t = "array" THEN d.a
                        ELSE <<d>>
                  /\ d.t = "array" =>
                        reply[c] = Answer(Outcome(Resp(Obj([results |-> d])), Undef).c)
                  /\ d = Obj([markdown |-> Str("X")]) =>
                        /\ IsSuccessReply(c)
                        /\ Flat(ReplyText(c)) = "X"

C9_Witness ==
    /\ Answered(1)
    /\ Body(1) = Arr(<<ItemX, ItemY>>)
    /\ results[1] = <<ItemX, ItemY>>
    /\ IsSuccessReply(1)

\* C10: a successful reply has exactly one text block and no isError flag;
\* its text is the Normalizer's outputs for the resolved items, one per item
\* and in their order, with the separator between neighbours; a non-empty
\* body with no null item is answered so, and {results: [{markdown: "X"},
\* {markdown: "Y"}]} is answered X, separator, Y.
C10_JoinedInOrder ==
    \A c \in Calls :
        /\ (pc[c] = "done" /\ IsSuccessReply(c))
            => LET k == Len(results[c])
                   text == ReplyText(c)
               IN /\ DOMAIN reply[c].value = {"content"}
                  /\ Len(reply[c].value.content) = 1
                  /\ reply[c].value.content[1].type = "text"
                  /\ Len(text) = IF k = 0 THEN 0 ELSE 2 * k - 1
                  /\ \A i \in 1..k : text[2 * i - 1] = JsString(extractMarkdown(results[c][i]).v)
                  /\ \A i \in 1..(k - 1) : text[2 * i] = "\n\n---\n\n"
        /\ (/\ Answered(c) /\ ~EmptyBody(Body(c))
            /\ \A i \in 1..Len(results[c]) : results[c][i] # Null)
            => IsSuccessReply(c)
        /\ (Answered(c) /\ Body(c) = Obj([results |-> Arr(<<ItemX, ItemY>>)]))
            => Flat(ReplyText(c)) = "X\n\n---\n\nY"

C10_Witness ==
    /\ Answered(1)
    /\ Body(1) = Obj([results |-> Arr(<<ItemX, ItemY>>)])
    /\ IsSuccessReply(1)
    /\ ReplyText(1) = <<"X", "\n\n---\n\n", "Y">>

\* C11: when an attempt brings a response whose body is null or absent, the
\* call ends there with an InternalError fault: that attempt is the call's
\* last, no POST follows it, and the answer is a fault, not a soft reply.
C11_EmptyBodyFaults ==
    \A c \in Calls :
        \A i \in 1..Len(hist[c]) :
            (hist[c][i].ok /\ hist[c][i].v.data \in {Undef, Null})
                => /\ i = Len(hist[c])
                   /\ Len(posts[c]) = i
                   /\ pc[c] = "done"
                   /\ reply[c] =
                         Fault(McpError("InternalError", "Empty response from crawling service"))
                   /\ ~IsSoftReply(c)

C11_Witness ==
    /\ Settled(1, <<"f", "s">>)
    /\ hist[1][1].v.isAxios
    /\ Body(1) = Null
    /\ Len(posts[1]) = 2
    /\ IsFault(1, "InternalError")

\* C12 as stated: every POST in flight is bounded by the 60-second timeout,
\* so an attempt can always end -- with the service's answer or, when the
\* service never answers, with the timeout's error as a failed attempt --
\* and no call ever hangs in an attempt.
C12_AsStated ==
    \A c \in Calls :
        pc[c] = "inflight"
            => ENABLED Settle(c)

\* C13: a call ends in a soft reply exactly when its third attempt failed
\* with a transport error; every other error is a fault that carries the
\* error itself -- a validation error, the empty-body error, the exception
\* of a null item, a non-transport exception of the third attempt -- and no
\* fault carries a transport error.
C13_SoftHardSplit ==
    \A c \in Calls :
        pc[c] = "done"
            => /\ IsSoftReply(c) <=> (Settled(c, <<"f", "f", "f">>) /\ hist[c][3].v.isAxios)
               /\ reply[c].kind = "fault" => ~reply[c].error.isAxios
               /\ reply[c].kind = "result" => (IsSoftReply(c) \/ IsSuccessReply(c))
               /\ req[c].name # "crawl_urls" => IsFault(c, "MethodNotFound")
               /\ (req[c].name = "crawl_urls" /\ ~WellFormed(req[c].arguments))
                    => IsFault(c, "InvalidParams")
               /\ (Answered(c) /\ EmptyBody(Body(c))) => IsFault(c, "InternalError")
               /\ (Answered(c) /\ \E i \in 1..Len(results[c]) : results[c][i] = Null)
                    => reply[c] = Fault(TypeError)
               /\ (Settled(c, <<"f", "f", "f">>) /\ ~hist[c][3].v.isAxios)
                    => reply[c] = Fault(hist[c][3].v)

C13_Witness ==
    /\ pc[1] = "done"
    /\ Settled(1, <<"f", "f", "f">>)
    /\ hist[1][1].v.isAxios /\ hist[1][2].v.isAxios
    /\ hist[1][3].v = PlainError("unexpected")
    /\ reply[1] = Fault(PlainError("unexpected"))

\* the number of attempts of call c that have failed
Failures(c) == Cardinality({i \in 1..Len(hist[c]) : ~hist[c][i].ok})

\* C14: a call has waited once for each failed attempt n < 3 and never
\* otherwise -- not after a third failure, not after a success; the wait
\* after attempt n lasts 1000 * 2^(n-1) ms (1000, then 2000), and attempt
\* n+1 has been issued only when that wait has fully elapsed.
C14_BackoffWaits ==
    \A c \in Calls :
        /\ Len(waits[c]) = IF Failures(c) > 2 THEN 2 ELSE Failures(c)
        /\ \A n \in 1..Len(waits[c]) :
              /\ ~hist[c][n].ok
              /\ IF pc[c] = "backoff" /\ n = Len(waits[c])
                    THEN /\ waits[c][n] + timer[c] = 1000 * 2 ^ (n - 1)
                         /\ timer[c] >= 0
                         /\ Len(posts[c]) = n
                 ELSE /\ waits[c][n] = 1000 * 2 ^ (n - 1)
                      /\ n = 1 => waits[c][n] = 1000
                      /\ n = 2 => waits[c][n] = 2000
        /\ \A n \in 1..(Len(posts[c]) - 1) :
              /\ ~hist[c][n].ok
              /\ Len(waits[c]) >= n
              /\ waits[c][n] = 1000 * 2 ^ (n - 1)
        /\ pc[c] = "backoff" => (Len(hist[c]) < 3 /\ ~hist[c][Len(hist[c])].ok)

C14_Witness ==
    /\ pc[1] = "done"
    /\ Settled(1, <<"f", "f", "f">>)
    /\ waits[1] = <<1000, 2000>>
    /\ Len(posts[1]) = 3

\* C15: whatever the kind of failure -- an HTTP error status (4xx as well
\* as 5xx), a refused or timed-out connection, an error that is no transport
\* error -- a failed attempt n < 3 never ends the call: the call is in the
\* wait that precedes attempt n+1, which can always go on, or attempt n+1
\* has been issued; a call that ended on a failed attempt made 3 attempts.
C15_EveryFailureRetried ==
    \A c \in Calls :
        /\ \A n \in 1..Len(hist[c]) :
              (~hist[c][n].ok /\ n < 3)
                  => \/ Len(posts[c]) >= n + 1
                     \/ /\ pc[c] = "backoff"
                        /\ Len(hist[c]) = n
                        /\ timer[c] > 0 \/ ENABLED BackoffElapses(c)
        /\ (pc[c] = "done" /\ hist[c] # <<>> /\ ~hist[c][Len(hist[c])].ok)
              => (Len(hist[c]) = 3 /\ Len(posts[c]) = 3)

C15_Witness ==
    /\ Len(posts[1]) = 3
    /\ Len(hist[1]) >= 2
    /\ hist[1][1].v.isAxios /\ HasStatus(hist[1][1].v)
    /\ hist[1][1].v.response.o.status.n = 404
    /\ ~hist[1][2].ok /\ hist[1][2].v.code = "ETIMEDOUT"

\* a field of an error body counts as provided when it holds a non-empty text
Provided(v) == v.t = "string" /\ v.s # ""

\* C16: the soft reply ends with the body's `message` when provided, else
\* with its `detail` when provided, else with the error's own text; its
\* target is "Unknown request" exactly when the error carries no request
\* configuration, and the method and URL of the request otherwise.
C16_MessagePriority ==
    \A c \in Calls :
        (pc[c] = "done" /\ IsSoftReply(c))
            => LET e == hist[c][Len(hist[c])].v
                   d == IF HasStatus(e) THEN e.response.o.data ELSE Undef
                   text == ReplyText(c)
               IN /\ text[Len(text)] =
                        IF Provided(Field(d, "message")) THEN Field(d, "message").s
                        ELSE IF Provided(Field(d, "detail")) THEN Field(d, "detail").s
                        ELSE e.message.s
                  /\ text[Len(text)] # ""
                  /\ IF e.config = Undef
                        THEN /\ Len(text) = 6
                             /\ text[4] = "Unknown request"
                     ELSE /\ Len(text) = 8
                          /\ <<text[4], text[5], text[6]>> =
                                <<"POST", " ", "http://127.0.0.1:11235/crawl_direct">>
                  /\ (HasStatus(e) /\ e.response.o.status.n = 502) =>
                        Flat(text) =
                          "Crawling service error (502) for POST http://127.0.0.1:11235/crawl_direct: bad gateway"
                  /\ e.code = "ERR_CANCELED" =>
                        Flat(text) = "Crawling service error (undefined) for Unknown request: canceled"

\* a soft reply for an error without request configuration
C16_UnknownRequestWitness ==
    /\ pc[1] = "done"
    /\ IsSoftReply(1)
    /\ hist[1][3].v.code = "ERR_CANCELED"
    /\ HasStatus(hist[1][2].v) /\ hist[1][2].v.response.o.status.n = 502
    /\ Contains(ReplyText(1), "Unknown request")
    /\ Contains(ReplyText(1), "canceled")

\* a soft reply for a body that provides both fields
C16_Witness ==
    /\ pc[1] = "done"
    /\ IsSoftReply(1)
    /\ HasStatus(hist[1][3].v) /\ hist[1][3].v.response.o.status.n = 502
    /\ Contains(ReplyText(1), "bad gateway")
    /\ ~Contains(ReplyText(1), "upstream")

\* C17: a call with well-formed arguments, an empty `urls` included, issues
\* one POST per attempt and no more; every POST goes to /crawl_direct and
\* carries the fixed configuration and all of the call's urls in the
\* request's order, so all POSTs of a call are the same and their number
\* does not depend on the number of urls.
C17_NoFanOut ==
    \A c \in Calls :
        (pc[c] # "idle" /\ req[c].name = "crawl_urls" /\ WellFormed(req[c].arguments))
            => /\ Len(posts[c]) = (IF attempt[c] > 3 THEN 3 ELSE attempt[c])
               /\ Len(posts[c]) = Len(hist[c]) + (IF pc[c] = "inflight" THEN 1 ELSE 0)
               /\ Len(posts[c]) >= 1
               /\ \A i \in 1..Len(posts[c]) :
                     /\ posts[c][i].method = "post"
                     /\ posts[c][i].url = "http://127.0.0.1:11235/crawl_direct"
                     /\ posts[c][i].urls = req[c].arguments.o.urls
                     /\ posts[c][i].config = DEFAULT_CONFIG
                     /\ posts[c][i] = posts[c][1]

C17_Witness ==
    /\ pc[1] = "done"
    /\ req[1].arguments = Obj([urls |-> Arr(<<Str("https://b.example"), Str("https://a.example")>>)])
    /\ Len(posts[1]) = 3
    /\ posts[1][3].urls.a = <<Str("https://b.example"), Str("https://a.example")>>

\* an empty `urls` is accepted and sent
C17_EmptyUrlsWitness ==
    /\ pc[1] = "done"
    /\ req[1].arguments = Obj([urls |-> Arr(<<>>)])
    /\ Len(posts[1]) = 3
    /\ posts[1][3].urls = Arr(<<>>)

\* the answer of call c as its own request and its own attempts make it
OwnAnswer(c) ==
    IF Validate(req[c]).threw THEN Fault(Validate(req[c]).v)
    ELSE IF hist[c][Len(hist[c])].ok
       THEN Answer(Outcome(hist[c][Len(hist[c])].v, Undef).c)
    ELSE Answer(Outcome(Undef, hist[c][Len(hist[c])].v).c)

\* C18: under every interleaving of the calls, each call has made at most 3
\* attempts; its attempt counter, response and last error are those of its
\* own attempts, whatever the other calls do; and when it has ended, its
\* answer is the one its own request and its own attempts make.
C18_CallsDoNotInterfere ==
    \A c \in Calls :
        /\ Len(posts[c]) <= 3
        /\ Len(hist[c]) <= 3
        /\ pc[c] = "idle" => (attempt[c] = 0 /\ posts[c] = <<>> /\ lastError[c] = Undef)
        /\ pc[c] \in {"inflight", "backoff"} => attempt[c] = Len(posts[c])
        /\ pc[c] = "backoff" => Len(hist[c]) = Len(posts[c])
        /\ response[c] = IF Answered(c) THEN hist[c][Len(hist[c])].v ELSE Undef
        /\ lastError[c] =
              IF Failures(c) = 0 THEN Undef ELSE hist[c][Failures(c)].v
        /\ pc[c] = "done" =>
              /\ reply[c] = OwnAnswer(c)
              /\ hist[c] # <<>> =>
                    (hist[c][Len(hist[c])].ok \/ Len(hist[c]) = 3)

C18_Witness ==
    /\ pc[1] = "backoff"
    /\ waits[1] = <<1000, 1000>>
    /\ pc[2] = "done"
    /\ Settled(2, <<"f", "f", "f">>)
    /\ hist[1][1].v # hist[2][1].v
    /\ hist[1][2].v # hist[2][3].v
    /\ reply[2] = Fault(PlainError("unexpected"))

\* C19: an attempt that brings a response is the call's last: the call has
\* ended, no POST follows, and the answer is the one that response alone
\* makes, as if no attempt had failed before -- never a soft reply.  A soft
\* reply is given only when exactly 3 POSTs were issued and all 3 failed.
C19_FirstSuccessEndsLoop ==
    \A c \in Calls :
        /\ \A i \in 1..Len(hist[c]) :
              hist[c][i].ok
                  => /\ i = Len(hist[c])
                     /\ Len(posts[c]) = i
                     /\ pc[c] = "done"
                     /\ reply[c] = Answer(Outcome(hist[c][i].v, Undef).c)
                     /\ results[c] = Outcome(hist[c][i].v, Undef).results
                     /\ ~IsSoftReply(c)
        /\ IsSoftReply(c)
              => /\ Len(posts[c]) = 3
                 /\ Settled(c, <<"f", "f", "f">>)

C19_Witness ==
    /\ pc[1] = "done"
    /\ Settled(1, <<"f", "s">>)
    /\ hist[1][1].v = Boom500
    /\ Body(1) = ItemX
    /\ Len(posts[1]) = 2
    /\ IsSuccessReply(1)
    /\ lastError[1] = Boom500

\* C20: every call runs its validation once, at its entry, and never again
\* between attempts; the name is checked before the arguments, so an unknown
\* name with malformed arguments gets MethodNotFound and never
\* InvalidParams; a validation fault is raised with no attempt made, and a
\* call that has made an attempt has passed both checks.
C20_ValidationOrderedOnce ==
    \A c \in Calls :
        /\ validated[c] = IF pc[c] = "idle" THEN 0 ELSE 1
        /\ (pc[c] # "idle" /\ req[c].name # "crawl_urls")
              => /\ IsFault(c, "MethodNotFound")
                 /\ ~IsFault(c, "InvalidParams")
                 /\ posts[c] = <<>> /\ hist[c] = <<>>
        /\ (pc[c] # "idle" /\ req[c].name = "crawl_urls" /\ ~WellFormed(req[c].arguments))
              => /\ IsFault(c, "InvalidParams")
                 /\ posts[c] = <<>> /\ hist[c] = <<>>
        /\ posts[c] # <<>>
              => /\ req[c].name = "crawl_urls" /\ WellFormed(req[c].arguments)
                 /\ ~IsFault(c, "MethodNotFound")
                 /\ ~IsFault(c, "InvalidParams")

C20_Witness ==
    /\ pc[1] = "done"
    /\ req[1].name = "scrape"
    /\ req[1].arguments = Obj([urls |-> Null])
    /\ IsFault(1, "MethodNotFound")
    /\ validated[1] = 1

\* three attempts, one validation
C20_OnceWitness ==
    /\ pc[1] = "done"
    /\ Len(posts[1]) = 3
    /\ validated[1] = 1

=============================================================================
